---- MODULE Spec2Model ----
(***************************************************************************)
(* night-market: sparse Merkle tree of notes, native and arithmetized      *)
(* membership paths, the Main / Spend / Settle / Migration circuits and    *)
(* the ledger contract's Deposit / Swap / Withdraw handlers.               *)
(*                                                                         *)
(* Field elements are modelled symbolically.  A scalar n of the prime      *)
(* field is <<"f", n>>; the output of the two-to-one hash is the term      *)
(* <<"pair", l, r>> and the output of the variable-arity hash is           *)
(* <<"crh", inputs>>.  The hash instances (MiMC, Poseidon) live in         *)
(* external crates; the term model is the collision-free idealisation:     *)
(* two hash outputs are equal exactly when hash and inputs are equal, the  *)
(* hash is order sensitive, and no hash output equals a small scalar.      *)
(***************************************************************************)
EXTENDS Integers, Sequences, FiniteSets, TLC

(* ------------------------------ bounds --------------------------------- *)
TreeDepth == 2
FieldModulus == 7
NumLeafValues == 2
MaxBatch == 2
MaxLeaves == 3

(* --------------------------- field and hashes -------------------------- *)
F(n) == <<"f", n % FieldModulus>>
Zero == F(0)
One == F(1)
IsScalar(x) == x[1] = "f"

\* TwoToOneCRH::evaluate(hasher, left, right)
Pair(l, r) == <<"pair", l, r>>
\* CRH::evaluate(hasher, inputs)
CRH(inputs) == <<"crh", inputs>>

Pow2(n) == 2 ^ n

(* ----------------------------- Merkle path ----------------------------- *)
Ok(v) == [ok |-> TRUE, err |-> "", val |-> v]
Err(e) == [ok |-> FALSE, err |-> e, val |-> Zero]

RECURSIVE calculate_root_loop(_, _, _)
calculate_root_loop(path, prev, k) ==
    IF k > Len(path) THEN Ok(prev)
    ELSE IF prev # path[k][1] /\ prev # path[k][2] THEN Err("InvalidPathNodes")
    ELSE calculate_root_loop(path, Pair(path[k][1], path[k][2]), k + 1)

\* calculate_root without the check of the leaf against the first pair
calculate_root_no_leaf_check(path, leaf) == calculate_root_loop(path, leaf, 1)

\* Path::calculate_root
calculate_root(path, leaf) ==
    IF leaf # path[1][1] /\ leaf # path[1][2] THEN Err("InvalidLeaf")
    ELSE calculate_root_loop(path, leaf, 1)

\* Path::check_membership: the error of calculate_root is propagated
check_membership(path, root_hash, leaf) ==
    LET r == calculate_root(path, leaf)
    IN  IF r.ok THEN [ok |-> TRUE, err |-> "", val |-> (r.val = root_hash)]
        ELSE [ok |-> FALSE, err |-> r.err, val |-> FALSE]

RECURSIVE get_index_loop(_, _, _, _, _)
\* the loop of Path::get_index; index and twopower are field elements
get_index_loop(path, prev, index, twopower, k) ==
    IF k > Len(path) THEN F(index)
    ELSE get_index_loop(path, Pair(path[k][1], path[k][2]),
                        IF prev # path[k][1] THEN (index + twopower) % FieldModulus
                                             ELSE index,
                        (twopower + twopower) % FieldModulus, k + 1)

\* get_index without the membership check
get_index_unchecked(path, root_hash, leaf) ==
    Ok(get_index_loop(path, leaf, 0, 1 % FieldModulus, 1))

\* Path::get_index
get_index(path, root_hash, leaf) ==
    LET m == check_membership(path, root_hash, leaf)
    IN  IF ~m.ok THEN Err(m.err)
        ELSE IF ~m.val THEN Err("InvalidLeaf")
        ELSE Ok(get_index_loop(path, leaf, 0, 1 % FieldModulus, 1))

RECURSIVE root_hash_loop(_, _, _)
root_hash_loop(path, previous_hash, k) ==
    IF k > Len(path) THEN previous_hash
    ELSE LET previous_is_left == previous_hash = path[k][1]
             left_hash == IF previous_is_left THEN path[k][1] ELSE path[k][2]
             right_hash == IF previous_is_left THEN path[k][2] ELSE path[k][1]
         IN  root_hash_loop(path, Pair(left_hash, right_hash), k + 1)

\* PathVar::root_hash, evaluated on the witness assignment
root_hash(path, leaf) == root_hash_loop(path, leaf, 1)

\* PathVar::check_membership, the value of the returned Boolean
PathVar_check_membership(path, root, leaf) == root = root_hash(path, leaf)

(* -------------------------- sparse Merkle tree ------------------------- *)
\* SparseMerkleTree::new passes empty_leaf; every caller passes F::zero()
EmptyLeaf == Zero

RECURSIVE empty_hashes(_)
\* empty_hashes[level], level counted from 0 as in the source
empty_hashes(level) ==
    IF level = 0 THEN EmptyLeaf
    ELSE Pair(empty_hashes(level - 1), empty_hashes(level - 1))

last_level_index == Pow2(TreeDepth) - 1

\* a lookup falling back to the empty leaf at every level
TreeGet_leaf_default(t, i, empty_hash) == IF i \in DOMAIN t THEN t[i] ELSE EmptyLeaf

\* self.tree.get(&i).unwrap_or(&empty_hash)
TreeGet(t, i, empty_hash) == IF i \in DOMAIN t THEN t[i] ELSE empty_hash

\* an insert that drops the entry of the sibling node
TreeInsert_dropping_sibling(t, i, v) ==
    LET sibling == IF i % 2 = 1 THEN i + 1 ELSE i - 1
    IN  [j \in (DOMAIN t \ {sibling}) \cup {i} |-> IF j = i THEN v ELSE t[j]]

\* self.tree.insert(i, v)
TreeInsert(t, i, v) ==
    [j \in DOMAIN t \cup {i} |-> IF j = i THEN v ELSE t[j]]

MinOf(S) == CHOOSE m \in S : \A o \in S : m <= o

RECURSIVE InsertLeaves(_, _, _)
\* first loop of insert_batch: store the leaves, collect the parents
InsertLeaves(t, leaves, todo) ==
    IF todo = {} THEN t
    ELSE LET i == MinOf(todo)
         IN  InsertLeaves(TreeInsert(t, last_level_index + i, leaves[i]),
                          leaves, todo \ {i})

RECURSIVE RehashLevel_keep_stored(_, _, _, _)
\* the level loop leaving a node that is already stored as it is
RehashLevel_keep_stored(t, todo, level, new_idxs) ==
    IF todo = {} THEN <<t, new_idxs>>
    ELSE LET i == MinOf(todo)
             empty_hash == empty_hashes(level)
             left == TreeGet(t, 2 * i + 1, empty_hash)
             right == TreeGet(t, 2 * i + 2, empty_hash)
             t2 == IF i \in DOMAIN t THEN t ELSE TreeInsert(t, i, Pair(left, right))
         IN  IF i > 0
             THEN RehashLevel_keep_stored(t2, todo \ {i}, level,
                                          new_idxs \cup {(i - 1) \div 2})
             ELSE <<t2, new_idxs>>

RECURSIVE RehashLevel(_, _, _, _)
\* inner loop of insert_batch over one level, in ascending index order;
\* the result is <<tree, new_idxs>>.  Reaching i = 0 ends the loop.
RehashLevel(t, todo, level, new_idxs) ==
    IF todo = {} THEN <<t, new_idxs>>
    ELSE LET i == MinOf(todo)
             empty_hash == empty_hashes(level)
             left == TreeGet(t, 2 * i + 1, empty_hash)
             right == TreeGet(t, 2 * i + 2, empty_hash)
             t2 == TreeInsert(t, i, Pair(left, right))
         IN  IF i > 0
             THEN RehashLevel(t2, todo \ {i}, level, new_idxs \cup {(i - 1) \div 2})
             ELSE <<t2, new_idxs>>

RECURSIVE RehashLevels(_, _, _)
RehashLevels(t, level_idxs, level) ==
    IF level = TreeDepth THEN t
    ELSE LET r == RehashLevel(t, level_idxs, level, {})
         IN  RehashLevels(r[1], r[2], level + 1)

\* insert_batch marking (true_index >> 1) instead of ((true_index - 1) >> 1)
insert_batch_wrong_parent(t, leaves) ==
    LET t1 == InsertLeaves(t, leaves, DOMAIN leaves)
        level_idxs == {(last_level_index + i) \div 2 : i \in DOMAIN leaves}
    IN  RehashLevels(t1, level_idxs, 0)

\* SparseMerkleTree::insert_batch; leaves is a function index -> leaf
insert_batch(t, leaves) ==
    LET t1 == InsertLeaves(t, leaves, DOMAIN leaves)
        level_idxs == {(last_level_index + i - 1) \div 2 : i \in DOMAIN leaves}
    IN  RehashLevels(t1, level_idxs, 0)

EmptyMap == [i \in {} |-> Zero]

RECURSIVE NextPowerOfTwoFrom(_, _)
NextPowerOfTwoFrom(n, p) == IF p >= n THEN p ELSE NextPowerOfTwoFrom(n, 2 * p)
\* usize::next_power_of_two
NextPowerOfTwo(n) == NextPowerOfTwoFrom(n, 1)

RECURSIVE BitLength(_)
BitLength(x) == IF x = 0 THEN 0 ELSE 1 + BitLength(x \div 2)
\* ark_std::log2: the ceiling of the base-2 logarithm, 0 for 0
Log2(x) ==
    IF x = 0 THEN 0
    ELSE IF NextPowerOfTwo(x) = x THEN BitLength(x) - 1
    ELSE BitLength(x)

\* "Ensure the tree can hold this many leaves": the assertion of new
SMT_new_assertion(leaves) ==
    LET last_level_size == NextPowerOfTwo(Cardinality(DOMAIN leaves))
        tree_size == 2 * last_level_size - 1
        tree_height == Log2(tree_size)
    IN  tree_height <= TreeDepth

\* SparseMerkleTree::new
SMT_new(leaves) == insert_batch(EmptyMap, leaves)

\* SparseMerkleTree::root
root(t) == TreeGet(t, 0, empty_hashes(TreeDepth - 1))

ZeroPath == [k \in 1..TreeDepth |-> <<Zero, Zero>>]

RECURSIVE membership_loop(_, _, _, _)
membership_loop(t, path, current_node, level) ==
    IF current_node = 0 THEN path
    ELSE LET sibling_node == IF current_node % 2 = 1 THEN current_node + 1
                                                   ELSE current_node - 1
             empty_hash == empty_hashes(level)
             current == TreeGet(t, current_node, empty_hash)
             sibling == TreeGet(t, sibling_node, empty_hash)
             pair == IF current_node % 2 = 1 THEN <<current, sibling>>
                                            ELSE <<sibling, current>>
         IN  membership_loop(t, [path EXCEPT ![level + 1] = pair],
                             (current_node - 1) \div 2, level + 1)

\* SparseMerkleTree::generate_membership_proof
generate_membership_proof(t, index) ==
    membership_loop(t, ZeroPath, index + Pow2(TreeDepth) - 1, 0)

(* ------------------------------ circuits ------------------------------- *)
N_ASSETS == 2
M_ASSETS == N_ASSETS + 1

\* (p - 1) / 2, the largest canonical non-negative representative
ModMinusOneDivTwo == (FieldModulus - 1) \div 2

\* FpVar addition
FAdd(a, b) == F(a[2] + b[2])

\* a range check that every field element passes
IsAnyFieldElement(x) == IsScalar(x)

\* enforce_smaller_or_equal_than_mod_minus_one_div_two
IsSmallerOrEqualThanModMinusOneDivTwo(x) == IsScalar(x) /\ x[2] <= ModMinusOneDivTwo

\* gadgets::calculate_balance_root / MainCircuit::calculate_balance_root
calculate_balance_root(balances) == CRH(balances)

\* gadgets::check_valid_balance_root / MainCircuit::check_valid_balance_root
check_valid_balance_root(balance_root, balances) ==
    balance_root = calculate_balance_root(balances)

ZeroBalances(n) == [i \in 1..n |-> Zero]

\* the constant zero_balance_root of the Main, Spend and Settle circuits
zero_balance_root == CRH(ZeroBalances(N_ASSETS))

\* H_crh(balance_root, identifier, nullifier)
NoteHash(balance_root, identifier, nullifier) ==
    CRH(<<balance_root, identifier, nullifier>>)

\* "Calculate old note" of the Main and Settle circuits
MainOldNote(w) ==
    NoteHash(calculate_balance_root(w.old_note_balances), w.old_note_identifier,
             w.nullifier)

\* the Main circuit's old-note check without the zero-balance alternative
MainOldNoteValid_no_bypass(w) ==
    LET old_note == MainOldNote(w)
    IN  /\ w.old_note_nullifier_hash = Pair(old_note, w.nullifier)
        /\ PathVar_check_membership(w.old_note_path, w.utxo_root, old_note)

\* "Assert validity of old note if there are some balance in it" (Main)
MainOldNoteValid(w) ==
    LET old_note == MainOldNote(w)
        is_nullifier_valid == w.old_note_nullifier_hash = Pair(old_note, w.nullifier)
        is_old_note_path_valid ==
            PathVar_check_membership(w.old_note_path, w.utxo_root, old_note)
    IN  \/ calculate_balance_root(w.old_note_balances) = zero_balance_root
        \/ (is_nullifier_valid /\ is_old_note_path_valid)

\* a nullifier other than the prover's
OtherNullifier == F(6)

\* a new-note check that does not tie the note to the witness nullifier
NewNoteValid_other_nullifier(w) ==
    \E nf \in {w.nullifier, OtherNullifier} :
        w.new_note = NoteHash(calculate_balance_root(w.new_note_balances),
                              Pair(w.address, w.new_note_blinding), nf)

\* "Assert validity of new note" (Main and Settle)
NewNoteValid(w) ==
    w.new_note = NoteHash(calculate_balance_root(w.new_note_balances),
                          Pair(w.address, w.new_note_blinding), w.nullifier)

\* the balance loop without the range check on the new balances
BalancesValid_no_new_range(w) ==
    \A i \in 1..N_ASSETS :
        /\ IsSmallerOrEqualThanModMinusOneDivTwo(w.old_note_balances[i])
        /\ FAdd(w.old_note_balances[i], w.diff_balances[i]) = w.new_note_balances[i]

\* "Assert Validity of all balances (inflow = outflow)" (Main and Settle)
BalancesValid(w) ==
    \A i \in 1..N_ASSETS :
        /\ IsSmallerOrEqualThanModMinusOneDivTwo(w.old_note_balances[i])
        /\ IsSmallerOrEqualThanModMinusOneDivTwo(w.new_note_balances[i])
        /\ FAdd(w.old_note_balances[i], w.diff_balances[i]) = w.new_note_balances[i]

\* MainCircuit::generate_constraints followed by cs.is_satisfied()
MainCircuit_generate_constraints(w) ==
    /\ check_valid_balance_root(w.diff_balance_root, w.diff_balances)
    /\ MainOldNoteValid(w)
    /\ NewNoteValid(w)
    /\ BalancesValid(w)

\* MainSpendCircuit::generate_constraints followed by cs.is_satisfied()
MainSpendCircuit_generate_constraints(s) ==
    LET old_note == NoteHash(s.old_note_balance_root, s.old_note_identifier, s.nullifier)
        is_nullifier_valid == s.old_note_nullifier_hash = Pair(old_note, s.nullifier)
        is_old_note_path_valid ==
            PathVar_check_membership(s.old_note_path, s.utxo_root, old_note)
    IN  \/ (s.old_note_balance_root = zero_balance_root /\ s.old_note_nullifier_hash = Zero)
        \/ (is_nullifier_valid /\ is_old_note_path_valid)

\* "Assert validity of old note if there are some balance in it" (Settle)
SettleOldNoteValid(w) ==
    LET old_note == MainOldNote(w)
        is_nullifier_valid == w.old_note_nullifier_hash = Pair(old_note, w.nullifier)
    IN  \/ (calculate_balance_root(w.old_note_balances) = zero_balance_root
            /\ w.old_note_nullifier_hash = Zero)
        \/ is_nullifier_valid

\* MainSettleCircuit::generate_constraints followed by cs.is_satisfied()
MainSettleCircuit_generate_constraints(w) ==
    /\ check_valid_balance_root(w.diff_balance_root, w.diff_balances)
    /\ SettleOldNoteValid(w)
    /\ NewNoteValid(w)
    /\ BalancesValid(w)

\* the Spend witness that shares old_note_balance_root, nullifier,
\* identifier, nullifier hash, path and root with a Main witness
SpendWitnessOf(w) ==
    [nullifier |-> w.nullifier, utxo_root |-> w.utxo_root,
     old_note_nullifier_hash |-> w.old_note_nullifier_hash,
     old_note_identifier |-> w.old_note_identifier,
     old_note_balance_root |-> calculate_balance_root(w.old_note_balances),
     old_note_path |-> w.old_note_path]

\* "Calculate old note identifier" and "Calculate old note" (Migration)
MigrationOldNote(g) ==
    NoteHash(calculate_balance_root(g.old_note_balances),
             Pair(g.address, g.old_note_blinding), g.nullifier)

\* "Assert validity of old note" (Migration)
MigrationOldNoteValid(g) ==
    LET old_note == MigrationOldNote(g)
        is_nullifier_valid == g.old_note_nullifier_hash = Pair(old_note, g.nullifier)
        is_old_note_path_valid ==
            PathVar_check_membership(g.old_note_path, g.utxo_root, old_note)
    IN  is_nullifier_valid /\ is_old_note_path_valid

\* "Assert validity of new note" (Migration)
MigrationNewNoteValid(g) ==
    g.new_note = NoteHash(calculate_balance_root(g.new_note_balances),
                          Pair(g.address, g.old_note_blinding), g.nullifier)

Min(a, b) == IF a <= b THEN a ELSE b

\* the two balance loops of the Migration circuit (zip, then skip(N_ASSETS))
MigrationBalancesValid(g) ==
    /\ \A i \in 1..Min(Len(g.old_note_balances), Len(g.new_note_balances)) :
           g.old_note_balances[i] = g.new_note_balances[i]
    /\ \A i \in (N_ASSETS + 1)..Len(g.new_note_balances) :
           g.new_note_balances[i] = Zero

\* MigrationCircuit::generate_constraints followed by cs.is_satisfied()
MigrationCircuit_generate_constraints(g) ==
    /\ MigrationOldNoteValid(g)
    /\ MigrationNewNoteValid(g)
    /\ MigrationBalancesValid(g)

\* the variables MainCircuit::generate_constraints allocates, in order
MainCircuit_allocations ==
    << [name |-> "address", mode |-> "witness"],
       [name |-> "nullifier", mode |-> "witness"],
       [name |-> "utxo_root", mode |-> "input"],
       [name |-> "diff_balance_root", mode |-> "input"],
       [name |-> "diff_balances", mode |-> "witness"],
       [name |-> "old_note_nullifier_hash", mode |-> "input"],
       [name |-> "old_note_identifier", mode |-> "input"],
       [name |-> "old_note_path", mode |-> "witness"],
       [name |-> "old_note_balances", mode |-> "witness"],
       [name |-> "new_note", mode |-> "input"],
       [name |-> "new_note_blinding", mode |-> "witness"],
       [name |-> "new_note_balances", mode |-> "witness"] >>

\* the variables MigrationCircuit::generate_constraints allocates, in order
MigrationCircuit_allocations ==
    << [name |-> "address", mode |-> "witness"],
       [name |-> "nullifier", mode |-> "witness"],
       [name |-> "utxo_root", mode |-> "input"],
       [name |-> "old_note_nullifier_hash", mode |-> "input"],
       [name |-> "old_note_blinding", mode |-> "input"],
       [name |-> "old_note_path", mode |-> "witness"],
       [name |-> "old_note_balances", mode |-> "witness"],
       [name |-> "new_note", mode |-> "input"],
       [name |-> "new_note_balances", mode |-> "witness"] >>

\* the instance (public input) names of a circuit in allocation order
PublicInputs(allocations) ==
    LET ins == SelectSeq(allocations, LAMBDA a : a.mode = "input")
    IN  [k \in 1..Len(ins) |-> ins[k].name]

\* the size assertion accepting equal sizes as well
MigrationCircuit_sizes_supported_or_equal(n, m) == n <= m

\* assert!(N_ASSETS < M_ASSETS, ...)
MigrationCircuit_sizes_supported(n, m) == n < m

\* the constraint system after MigrationCircuit::generate_constraints for
\* sizes n and m: the assertion comes first; enforced counts the enforce
\* calls (old note, new note, one per copied slot, one per padded slot)
MigrationCircuit_synthesize(n, m) ==
    IF ~MigrationCircuit_sizes_supported(n, m)
    THEN [panicked |-> TRUE, allocated |-> <<>>, enforced |-> 0]
    ELSE [panicked |-> FALSE, allocated |-> MigrationCircuit_allocations,
          enforced |-> 2 + Min(n, m) + (IF m > n THEN m - n ELSE 0)]

(* ------------------------------ contract ------------------------------- *)
MaxNotes == 3
MaxTime == 2

\* str::to_lowercase on the denoms that occur
ToLower(denom) ==
    IF denom = "UOSMO" THEN "uosmo"
    ELSE IF denom = "uUSDT" THEN "uusdt"
    ELSE IF denom = "Other" THEN "other"
    ELSE denom

\* InstantiateMsg.assets
InstantiateAssets == [i \in 1..N_ASSETS |-> IF i = 1 THEN "uosmo" ELSE IF i = 2 THEN "uUSDT" ELSE "uatom"]

\* ASSETS, saved lower-cased by instantiate
ASSETS == [i \in 1..N_ASSETS |-> ToLower(InstantiateAssets[i])]

\* A base64 string is modelled by the integer its decoded bytes encode in
\* little-endian order.  Fr::from_le_bytes_mod_order(&base64::decode(s))
FromLeBytesModOrder(enc) == enc % FieldModulus

\* A base64 string holding a root: the little-endian bytes of the integer
\* value + k * p, value being the field element term
RootBytes(value, k) == <<"le", value, k>>

\* Fr::from_le_bytes_mod_order(&base64::decode(&root)): k * p is reduced away
RootFromLeBytesModOrder(enc) ==
    IF IsScalar(enc[2]) THEN F(enc[2][2] + enc[3] * FieldModulus) ELSE enc[2]

\* the NULLIFIER key taken from the supplied bytes without normalisation
nullifier_raw_bytes(enc) == enc

\* nullifier_hash.into_bigint().to_bytes_le(): the canonical bytes of the
\* decoded field element, used as the NULLIFIER key
nullifier_normalized(enc) == FromLeBytesModOrder(enc)

\* TREE.is_valid_root(storage, &tree_root_normalized)
is_valid_root(st, tree_root) == tree_root \in st.root_history

\* TREE.insert(storage, leaf, hasher): append at the next index and return
\* (index, new_root); fails when the tree is full
TreeFull(st) == Len(st.leafs) >= Pow2(TreeDepth)
TREE_insert(st, leaf) ==
    LET index == Len(st.leafs)
        t2 == insert_batch(st.tree, [i \in {index} |-> leaf])
    IN  [st EXCEPT !.leafs = Append(st.leafs, leaf),
                   !.tree = t2,
                   !.root_history = st.root_history \cup {root(t2)}]

\* query, QueryMsg::Root: TREE.get_latest_root
query_Root(st) == root(st.tree)

\* the expressions the handlers pass to Groth16::verify, named by the
\* circuit value each stands for
VerifierInputNames ==
    <<"aux", "utxo_root", "diff_balance_root", "old_note_nullifier_hash",
      "old_note_identifier", "new_note">>

\* BTreeMap::from_iter(info.funds ... (e.denom.to_lowercase(), e.amount)):
\* a later coin replaces an earlier one with the same lower-cased denom
FundsMap(funds) ==
    [d \in {ToLower(funds[k].denom) : k \in 1..Len(funds)} |->
        LET last == CHOOSE k \in 1..Len(funds) :
                        /\ ToLower(funds[k].denom) = d
                        /\ \A j \in (k + 1)..Len(funds) : ToLower(funds[j].denom) # d
        IN  funds[last].amount]

\* the diff vector of Deposit with the attached denoms compared as sent
DepositDiff_case_sensitive(funds) ==
    LET sent == {funds[k].denom : k \in 1..Len(funds)}
    IN  [i \in 1..N_ASSETS |->
            IF ASSETS[i] \in sent THEN F(FundsMap(funds)[ASSETS[i]]) ELSE Zero]

\* the diff vector of Deposit: for each asset the attached amount or zero
DepositDiff(funds) ==
    LET funds_map == FundsMap(funds)
    IN  [i \in 1..N_ASSETS |->
            IF ToLower(ASSETS[i]) \in DOMAIN funds_map
            THEN F(funds_map[ToLower(ASSETS[i])]) ELSE Zero]

\* the diff vector of Swap: minus the amount in, plus the minimum amount out
SwapDiff(m) ==
    [i \in 1..N_ASSETS |->
        IF ASSETS[i] = m.out_denom THEN F(m.out_amount)
        ELSE IF ASSETS[i] = m.in_denom THEN F(0 - m.in_amount + FieldModulus)
        ELSE Zero]

\* the diff vector of Withdraw: minus each withdrawn amount
WithdrawDiff(assets) ==
    [i \in 1..N_ASSETS |->
        IF ASSETS[i] \in DOMAIN assets THEN F(FieldModulus - assets[ASSETS[i]]) ELSE Zero]

\* aux hashed from the swap argument alone
SwapAux_without_timeout(m) ==
    CRH(<<m.route, m.in_denom, m.in_amount, m.out_denom, m.out_amount>>)

\* to_vec(&swap_argument) ++ to_vec(&timeout), hashed into aux
SwapAux(m) == CRH(<<m.route, m.in_denom, m.in_amount, m.out_denom, m.out_amount, m.timeout>>)

\* the result of one handler run: st is the storage as the handler left
\* it, whether it returned Ok or Err
Outcome(err, st, attrs, inputs) == [err |-> err, st |-> st, attrs |-> attrs, inputs |-> inputs]

\* a host that keeps the writes of a handler that returned Err
Commit_without_rollback(st, o) == o.st

\* the storage after the message: the writes of a handler that returned
\* Err are discarded with the transaction
Commit(st, o) == IF o.err = "" THEN o.st ELSE st
NoAttrs == [index |-> 0 - 1, new_root |-> Zero, leaf |-> Zero]

\* Deposit reporting the root read before TREE.insert
ExecuteDeposit_root_before_insert(st, m) ==
    LET nullifier_hash == FromLeBytesModOrder(m.nullifier_hash)
        tree_root == RootFromLeBytesModOrder(m.root)
        key == nullifier_normalized(m.nullifier_hash)
        st1 == IF nullifier_hash # 0
               THEN [st EXCEPT !.nullifier = st.nullifier \cup {key}] ELSE st
        diff_balance_root == CRH(DepositDiff(m.funds))
        inputs == <<Zero, tree_root, diff_balance_root, F(nullifier_hash),
                    m.identifier, m.new_note>>
        st2 == TREE_insert(st1, m.new_note)
    IN  IF tree_root # Zero /\ ~is_valid_root(st, tree_root)
            THEN Outcome("InvalidRoot", st, NoAttrs, <<>>)
        ELSE IF nullifier_hash # 0 /\ key \in st.nullifier
            THEN Outcome("UsedNullifier", st, NoAttrs, <<>>)
        ELSE IF TreeFull(st1) THEN Outcome("Merkle", st1, NoAttrs, inputs)
        ELSE IF ~m.is_valid THEN Outcome("InvalidProof", st2, NoAttrs, inputs)
        ELSE Outcome("", st2,
                     [index |-> Len(st1.leafs), new_root |-> root(st1.tree),
                      leaf |-> m.new_note], inputs)

\* execute, ExecuteMsg::Deposit
ExecuteDeposit(st, m) ==
    LET nullifier_hash == FromLeBytesModOrder(m.nullifier_hash)
        tree_root == RootFromLeBytesModOrder(m.root)
        key == nullifier_normalized(m.nullifier_hash)
        st1 == IF nullifier_hash # 0
               THEN [st EXCEPT !.nullifier = st.nullifier \cup {key}] ELSE st
        diff_balance_root == CRH(DepositDiff(m.funds))
        inputs == <<Zero, tree_root, diff_balance_root, F(nullifier_hash),
                    m.identifier, m.new_note>>
        st2 == TREE_insert(st1, m.new_note)
    IN  IF tree_root # Zero /\ ~is_valid_root(st, tree_root)
            THEN Outcome("InvalidRoot", st, NoAttrs, <<>>)
        ELSE IF nullifier_hash # 0 /\ key \in st.nullifier
            THEN Outcome("UsedNullifier", st, NoAttrs, <<>>)
        ELSE IF TreeFull(st1) THEN Outcome("Merkle", st1, NoAttrs, inputs)
        ELSE IF ~m.is_valid THEN Outcome("InvalidProof", st2, NoAttrs, inputs)
        ELSE Outcome("", st2,
                     [index |-> Len(st1.leafs), new_root |-> root(st2.tree),
                      leaf |-> m.new_note], inputs)

\* execute, ExecuteMsg::Swap
ExecuteSwap(st, m, block_time, sender, out_balance) ==
    LET aux == SwapAux(m)
        nullifier_hash == FromLeBytesModOrder(m.nullifier_hash)
        key == nullifier_normalized(m.nullifier_hash)
        st1 == [st EXCEPT !.nullifier = st.nullifier \cup {key}]
        tree_root == RootFromLeBytesModOrder(m.root)
        diff_balance_root == CRH(SwapDiff(m))
        inputs == <<aux, tree_root, diff_balance_root, F(nullifier_hash),
                    m.identifier, m.new_note>>
        st2 == TREE_insert(st1, m.new_note)
        st3 == [st2 EXCEPT !.latest_swap =
                   [set |-> TRUE, balance |-> out_balance, denom |-> m.out_denom,
                    amount |-> m.out_amount, sender |-> sender]]
    IN  IF m.timeout >= 0 /\ ~(block_time <= m.timeout)
            THEN Outcome("AlreadyTimeout", st, NoAttrs, <<>>)
        ELSE IF m.route = "no_token_in" \/ m.route = "no_routes"
            THEN Outcome("InvalidSwapRoute", st, NoAttrs, <<>>)
        ELSE IF m.in_denom = m.out_denom
            THEN Outcome("InvalidSwapDenom", st, NoAttrs, <<>>)
        ELSE IF key \in st.nullifier
            THEN Outcome("UsedNullifier", st, NoAttrs, <<>>)
        ELSE IF ~is_valid_root(st1, tree_root)
            THEN Outcome("InvalidRoot", st1, NoAttrs, <<>>)
        ELSE IF TreeFull(st1) THEN Outcome("Merkle", st1, NoAttrs, inputs)
        ELSE IF ~m.is_valid THEN Outcome("InvalidProof", st2, NoAttrs, inputs)
        ELSE Outcome("", st3,
                     [index |-> Len(st1.leafs), new_root |-> root(st2.tree),
                      leaf |-> m.new_note], inputs)

\* Withdraw with the zero sentinels of Deposit: no root check for a zero
\* root, no nullifier check or record for a zero nullifier hash
ExecuteWithdraw_with_sentinels(st, m, sender) ==
    LET nullifier_hash == FromLeBytesModOrder(m.nullifier_hash)
        key == nullifier_normalized(m.nullifier_hash)
        st1 == IF nullifier_hash # 0
               THEN [st EXCEPT !.nullifier = st.nullifier \cup {key}] ELSE st
        tree_root == RootFromLeBytesModOrder(m.root)
        diff_balance_root == CRH(WithdrawDiff(m.assets))
        identifier == Pair(sender, m.blinding)
        inputs == <<Zero, tree_root, diff_balance_root, F(nullifier_hash),
                    identifier, m.new_note>>
        st2 == TREE_insert(st1, m.new_note)
    IN  IF nullifier_hash # 0 /\ key \in st.nullifier
            THEN Outcome("UsedNullifier", st, NoAttrs, <<>>)
        ELSE IF tree_root # Zero /\ ~is_valid_root(st1, tree_root)
            THEN Outcome("InvalidRoot", st1, NoAttrs, <<>>)
        ELSE IF TreeFull(st1) THEN Outcome("Merkle", st1, NoAttrs, inputs)
        ELSE IF ~m.is_valid THEN Outcome("InvalidProof", st2, NoAttrs, inputs)
        ELSE Outcome("", st2,
                     [index |-> Len(st1.leafs), new_root |-> root(st2.tree),
                      leaf |-> m.new_note], inputs)

\* execute, ExecuteMsg::Withdraw
ExecuteWithdraw(st, m, sender) ==
    LET nullifier_hash == FromLeBytesModOrder(m.nullifier_hash)
        key == nullifier_normalized(m.nullifier_hash)
        st1 == [st EXCEPT !.nullifier = st.nullifier \cup {key}]
        tree_root == RootFromLeBytesModOrder(m.root)
        diff_balance_root == CRH(WithdrawDiff(m.assets))
        identifier == Pair(sender, m.blinding)
        inputs == <<Zero, tree_root, diff_balance_root, F(nullifier_hash),
                    identifier, m.new_note>>
        st2 == TREE_insert(st1, m.new_note)
    IN  IF key \in st.nullifier
            THEN Outcome("UsedNullifier", st, NoAttrs, <<>>)
        ELSE IF ~is_valid_root(st1, tree_root)
            THEN Outcome("InvalidRoot", st1, NoAttrs, <<>>)
        ELSE IF TreeFull(st1) THEN Outcome("Merkle", st1, NoAttrs, inputs)
        ELSE IF ~m.is_valid THEN Outcome("InvalidProof", st2, NoAttrs, inputs)
        ELSE Outcome("", st2,
                     [index |-> Len(st1.leafs), new_root |-> root(st2.tree),
                      leaf |-> m.new_note], inputs)

\* env.contract.address
Contract == F(4)

\* a sender check that lets every address through
TransferExcess_authorized_anyone(sender) == TRUE

\* info.sender == env.contract.address
TransferExcess_authorized(sender) == sender = Contract

NoLatestSwap == [set |-> FALSE, balance |-> 0, denom |-> "", amount |-> 0, sender |-> Zero]
NoSend == [to |-> Zero, amount |-> 0, denom |-> ""]

\* TransferExcess sending whenever the balance reaches the minimum
ExecuteTransferExcess_at_minimum(st, sender, current_balance) ==
    LET saved == st.latest_swap
        st1 == [st EXCEPT !.latest_swap = NoLatestSwap]
        min_balance == saved.balance + saved.amount
    IN  IF ~TransferExcess_authorized(sender)
            THEN [err |-> "NotContract", st |-> st, send |-> NoSend, read |-> FALSE]
        ELSE IF ~saved.set
            THEN [err |-> "Std", st |-> st, send |-> NoSend, read |-> TRUE]
        ELSE IF current_balance >= min_balance
            THEN [err |-> "", st |-> st1, read |-> TRUE,
                  send |-> [to |-> saved.sender, amount |-> current_balance - min_balance,
                            denom |-> saved.denom]]
        ELSE [err |-> "MinimumSwapBalanceNotMet", st |-> st1, send |-> NoSend, read |-> TRUE]

\* execute, ExecuteMsg::TransferExcess; current_balance is what
\* query_balance returns for the saved denom; read tells whether LATEST_SWAP
\* was loaded
ExecuteTransferExcess(st, sender, current_balance) ==
    LET saved == st.latest_swap
        st1 == [st EXCEPT !.latest_swap = NoLatestSwap]
        min_balance == saved.balance + saved.amount
    IN  IF ~TransferExcess_authorized(sender)
            THEN [err |-> "NotContract", st |-> st, send |-> NoSend, read |-> FALSE]
        ELSE IF ~saved.set
            THEN [err |-> "Std", st |-> st, send |-> NoSend, read |-> TRUE]
        ELSE IF current_balance > min_balance
            THEN [err |-> "", st |-> st1, read |-> TRUE,
                  send |-> [to |-> saved.sender, amount |-> current_balance - min_balance,
                            denom |-> saved.denom]]
        ELSE [err |-> "MinimumSwapBalanceNotMet", st |-> st1, send |-> NoSend, read |-> TRUE]

(* ------------------------------- state --------------------------------- *)
VARIABLES
    tree,    \* SparseMerkleTree.tree of the off-chain mirror
    phase,   \* "idle", or the kind of result waiting to be read
    q,       \* the last membership query and both checkers' results
    acct,    \* the prover's account: its note's balances and leaf index
    run,     \* the last synthesized circuit: witness and satisfaction
    store,   \* the contract's storage: NULLIFIER, TREE, LATEST_SWAP
    resp,    \* the contract's answer to the last message
    wasm     \* the client's SparseMerkleTree (wasm) and the leaves passed to it

vars == <<tree, phase, q, acct, run, store, resp, wasm>>

LeafIndices == 0..(Pow2(TreeDepth) - 1)
LeafValues == {F(n) : n \in 0..(NumLeafValues - 1)}
PopulatedLeaves(t) == {i \in LeafIndices : (last_level_index + i) \in DOMAIN t}
LeafAt(t, i) == TreeGet(t, last_level_index + i, EmptyLeaf)

NoQuery == [kind |-> "none", index |-> 0, leaf |-> Zero, path |-> ZeroPath,
            root |-> Zero, native |-> Err(""), arith |-> Zero, got |-> Err("")]

Batches ==
    UNION {[S -> LeafValues] : S \in {S \in SUBSET LeafIndices : Cardinality(S) <= MaxBatch}}

NoAccount == [index |-> 0 - 1, balances |-> ZeroBalances(N_ASSETS)]
NoRun == [kind |-> "none"]

\* TREE.init with the zero leaf; NULLIFIER and LATEST_SWAP empty
EmptyStore ==
    [nullifier |-> {}, leafs |-> <<>>, tree |-> SMT_new(EmptyMap), root_history |-> {},
     latest_swap |-> NoLatestSwap]
\* deposits counts the successful Deposit messages so far
NoResp == [msg |-> "none", err |-> "", nullifier_enc |-> 0, nullifier_hash |-> 0,
           attrs |-> NoAttrs, inputs |-> <<>>, deposits |-> 0]

\* SparseMerkleTree::new (wasm); passed lists the leaves handed to
\* insert_batch so far
WasmNew == [latest_index |-> 0, tree |-> SMT_new(EmptyMap), passed |-> <<>>]

Init ==
    /\ tree = SMT_new(EmptyMap)
    /\ phase = "idle"
    /\ q = NoQuery
    /\ acct = NoAccount
    /\ run = NoRun
    /\ store = EmptyStore
    /\ resp = NoResp
    /\ wasm = WasmNew

(* ----------------------- Merkle tree and path steps --------------------- *)
\* tree.insert_batch(&leaves, &hasher)
InsertBatch ==
    /\ phase = "idle"
    /\ \E leaves \in Batches :
         /\ Cardinality(PopulatedLeaves(tree) \cup DOMAIN leaves) <= MaxLeaves
         /\ tree' = insert_batch(tree, leaves)
    /\ UNCHANGED <<phase, q, acct, run, store, resp, wasm>>

\* path = tree.generate_membership_proof(i), then the native and the
\* arithmetized root recomputation over leaf i and that path
ProveMembership ==
    /\ phase = "idle"
    /\ \E i \in LeafIndices :
         LET path == generate_membership_proof(tree, i)
             leaf == LeafAt(tree, i)
         IN  q' = [kind |-> "proof", index |-> i, leaf |-> leaf, path |-> path,
                   root |-> root(tree),
                   native |-> calculate_root(path, leaf),
                   arith |-> root_hash(path, leaf),
                   got |-> get_index(path, root(tree), leaf)]
    /\ phase' = "queried"
    /\ UNCHANGED <<tree, acct, run, store, resp, wasm>>

Swapped(path, flips) ==
    [k \in 1..TreeDepth |-> IF k \in flips THEN <<path[k][2], path[k][1]>> ELSE path[k]]

\* a caller-supplied (leaf, path, root) triple handed to both checkers
CheckSuppliedPath ==
    /\ phase = "idle"
    /\ \E i \in LeafIndices, flips \in SUBSET (1..TreeDepth),
          leaf \in LeafValues \cup {F(NumLeafValues)}, r \in {root(tree), Zero} :
         LET path == Swapped(generate_membership_proof(tree, i), flips)
         IN  q' = [kind |-> "supplied", index |-> i, leaf |-> leaf, path |-> path,
                   root |-> r,
                   native |-> calculate_root(path, leaf),
                   arith |-> root_hash(path, leaf),
                   got |-> get_index(path, r, leaf)]
    /\ phase' = "queried"
    /\ UNCHANGED <<tree, acct, run, store, resp, wasm>>

\* the leaf maps handed to SparseMerkleTree::new: indices 0 .. 2^D
NewLeafMaps == {[i \in S |-> One] : S \in SUBSET (0..Pow2(TreeDepth))}

\* SparseMerkleTree::new(&leaves, &hasher, &F::zero()): the assertion, then
\* the tree built by insert_batch
NewTree ==
    /\ phase = "idle"
    /\ \E leaves \in NewLeafMaps :
         q' = [kind |-> "new", leaves |-> leaves,
               panicked |-> ~SMT_new_assertion(leaves),
               tree |-> IF SMT_new_assertion(leaves) THEN SMT_new(leaves) ELSE EmptyMap]
    /\ phase' = "queried"
    /\ UNCHANGED <<tree, acct, run, store, resp, wasm>>

Reset ==
    /\ phase = "queried"
    /\ phase' = "idle"
    /\ q' = NoQuery
    /\ UNCHANGED <<tree, acct, run, store, resp, wasm>>

Next == InsertBatch \/ ProveMembership \/ CheckSuppliedPath \/ NewTree \/ Reset

Spec == Init /\ [][Next]_vars

(* ----------------------------- circuit steps ---------------------------- *)
Address == F(3)
Nullifier == F(2)
OldBlinding == F(4)
NewBlinding == F(5)

UnitBalances(n, i, v) == [j \in 1..n |-> IF j = i THEN v ELSE Zero]

\* balances an existing note may hold
AccountBalances ==
    {ZeroBalances(N_ASSETS)} \cup
    {UnitBalances(N_ASSETS, i, F(v)) : i \in 1..N_ASSETS, v \in {1, ModMinusOneDivTwo}}

\* balance deltas: nothing, a deposit of 1 or a withdrawal of 1 in one slot
DiffBalances ==
    {ZeroBalances(N_ASSETS)} \cup
    {UnitBalances(N_ASSETS, i, F(v)) : i \in 1..N_ASSETS, v \in {1, FieldModulus - 1}}

\* balances claimed for a note that was never inserted
ForgedBalances == UnitBalances(N_ASSETS, 1, F(2))

HonestIdentifier == Pair(Address, OldBlinding)
HonestNote(balances) ==
    NoteHash(calculate_balance_root(balances), HonestIdentifier, Nullifier)

VecAdd(a, b) == [i \in 1..N_ASSETS |-> FAdd(a[i], b[i])]

\* the prover's note is inserted into the mirror tree next to another leaf
CreateNote ==
    /\ phase = "idle"
    /\ acct.index < 0
    /\ \E k \in LeafIndices, b \in AccountBalances :
         /\ acct' = [index |-> k, balances |-> b]
         /\ tree' = insert_batch(tree,
                [i \in {k, (k + 1) % Pow2(TreeDepth)} |->
                    IF i = k THEN HonestNote(b) ELSE One])
    /\ UNCHANGED <<phase, q, run, store, resp, wasm>>

PathChoices ==
    LET i == IF acct.index < 0 THEN 0 ELSE acct.index
        honest == generate_membership_proof(tree, i)
    IN  {honest, ZeroPath, Swapped(honest, {TreeDepth})}

\* the witness record of MainCircuit (and of the Settle circuit)
MainWitness(r, dok, nok, nnok, id, p, o, d, n) ==
    [address |-> Address, nullifier |-> Nullifier, utxo_root |-> r,
     diff_balance_root |-> IF dok THEN calculate_balance_root(d) ELSE Zero,
     diff_balances |-> d,
     old_note_nullifier_hash |->
         IF nok THEN Pair(NoteHash(calculate_balance_root(o), id, Nullifier), Nullifier)
         ELSE Zero,
     old_note_identifier |-> id, old_note_path |-> p, old_note_balances |-> o,
     new_note |-> IF nnok
                  THEN NoteHash(calculate_balance_root(n),
                                Pair(Address, NewBlinding), Nullifier)
                  ELSE Zero,
     new_note_blinding |-> NewBlinding, new_note_balances |-> n]

\* a new note over the right balances and identifier but hashed with a
\* nullifier that is not the witness nullifier
ForgedNewNote(n) ==
    NoteHash(calculate_balance_root(n), Pair(Address, NewBlinding), OtherNullifier)

\* new balances: the sum, the sum with one slot off by one, or all zero
NewBalanceChoices(o, d) ==
    {VecAdd(o, d), ZeroBalances(N_ASSETS)} \cup
    {[VecAdd(o, d) EXCEPT ![i] = FAdd(@, One)] : i \in 1..N_ASSETS}

\* generate_constraints of the Main circuit and of its Spend / Settle split
\* over one witness set, each followed by cs.is_satisfied()
SynthesizeMain ==
    /\ phase = "idle"
    /\ \E r \in {root(tree), Zero}, dok \in BOOLEAN, nok \in BOOLEAN, nnok \in BOOLEAN,
          id \in {HonestIdentifier, Zero}, p \in PathChoices,
          o \in {acct.balances, ZeroBalances(N_ASSETS), ForgedBalances},
          d \in DiffBalances :
         \E n \in NewBalanceChoices(o, d), forged \in BOOLEAN :
            LET w0 == MainWitness(r, dok, nok, nnok, id, p, o, d, n)
                w == IF forged THEN [w0 EXCEPT !.new_note = ForgedNewNote(n)] ELSE w0
            IN  run' = [kind |-> "main", w |-> w,
                        main |-> MainCircuit_generate_constraints(w),
                        spend |-> MainSpendCircuit_generate_constraints(SpendWitnessOf(w)),
                        settle |-> MainSettleCircuit_generate_constraints(w)]
    /\ phase' = "synthesized"
    /\ UNCHANGED <<tree, q, acct, store, resp, wasm>>

ExtendBalances(b) == [i \in 1..M_ASSETS |-> IF i <= N_ASSETS THEN b[i] ELSE Zero]

\* the witness record of MigrationCircuit
MigrationWitness(r, nok, nnok, bl, p, o, n) ==
    [address |-> Address, nullifier |-> Nullifier, utxo_root |-> r,
     old_note_nullifier_hash |->
         IF nok THEN Pair(NoteHash(calculate_balance_root(o),
                                   Pair(Address, bl), Nullifier), Nullifier)
         ELSE Zero,
     old_note_blinding |-> bl, old_note_path |-> p, old_note_balances |-> o,
     new_note |-> IF nnok
                  THEN NoteHash(calculate_balance_root(n), Pair(Address, bl), Nullifier)
                  ELSE Zero,
     new_note_balances |-> n]

\* migrated balances: the copy, or the copy with slot 1 or slot M off by one
MigratedBalanceChoices(o) ==
    {ExtendBalances(o)} \cup
    {[ExtendBalances(o) EXCEPT ![i] = FAdd(@, One)] : i \in {1, M_ASSETS}}

\* generate_constraints of the Migration circuit, then cs.is_satisfied()
SynthesizeMigration ==
    /\ phase = "idle"
    /\ \E r \in {root(tree), Zero}, nok \in BOOLEAN, nnok \in BOOLEAN,
          bl \in {OldBlinding, NewBlinding}, p \in PathChoices,
          o \in {acct.balances, ForgedBalances} :
         \E n \in MigratedBalanceChoices(o) :
            LET g == MigrationWitness(r, nok, nnok, bl, p, o, n)
            IN  run' = [kind |-> "migration", w |-> g,
                        migration |-> MigrationCircuit_generate_constraints(g)]
    /\ phase' = "synthesized"
    /\ UNCHANGED <<tree, q, acct, store, resp, wasm>>

MaxAssetSlots == 3

\* generate_constraints of MigrationCircuit<n, m> on a fresh constraint system
SynthesizeMigrationSizes ==
    /\ phase = "idle"
    /\ \E n \in 1..MaxAssetSlots, m \in 1..MaxAssetSlots :
         run' = [kind |-> "migration_sizes", n |-> n, m |-> m,
                 cs |-> MigrationCircuit_synthesize(n, m)]
    /\ phase' = "synthesized"
    /\ UNCHANGED <<tree, q, acct, store, resp, wasm>>

Discard ==
    /\ phase = "synthesized"
    /\ phase' = "idle"
    /\ run' = NoRun
    /\ UNCHANGED <<tree, q, acct, store, resp, wasm>>

NextCircuit ==
    CreateNote \/ SynthesizeMain \/ SynthesizeMigration \/ SynthesizeMigrationSizes \/ Discard

SpecCircuit == Init /\ [][NextCircuit]_vars

RECURSIVE MirrorOf(_, _)
\* the off-chain tree after insert_batch of notes 1..k at indices 0..k-1
MirrorOf(notes, k) ==
    IF k = 0 THEN SMT_new(EmptyMap)
    ELSE insert_batch(MirrorOf(notes, k - 1), [i \in {k - 1} |-> notes[k]])

(* ------------------------- client tree mirror steps --------------------- *)
\* base64 leaf strings by the integer their bytes encode: 1, 2 and the
\* non-canonical p + 1
LeafEncodings == {1, 2, FieldModulus + 1}

\* leaf lists of up to MaxBatch leaves
LeafLists == UNION {[1..n -> LeafEncodings] : n \in 0..MaxBatch}

\* SparseMerkleTree::insert_batch (wasm): leaf i of the list goes to index
\* latest_index + i, then latest_index advances by the length of the list
wasm_insert_batch(w, leaf_list) ==
    LET len == Len(leaf_list)
        leaves == [i \in {w.latest_index + k - 1 : k \in 1..len} |->
                      F(FromLeBytesModOrder(leaf_list[i - w.latest_index + 1]))]
    IN  [latest_index |-> w.latest_index + len,
         tree |-> insert_batch(w.tree, leaves),
         passed |-> w.passed \o leaf_list]

\* the mirror is driven up to one leaf past the capacity 2^D of the tree
WasmInsertBatch ==
    /\ \E leaf_list \in LeafLists :
         /\ wasm.latest_index + Len(leaf_list) <= Pow2(TreeDepth) + 1
         /\ wasm' = wasm_insert_batch(wasm, leaf_list)
    /\ UNCHANGED <<tree, phase, q, acct, run, store, resp>>

NextWasm == WasmInsertBatch

SpecWasm == Init /\ [][NextWasm]_vars

(* ----------------------------- contract steps --------------------------- *)
\* encodings of nullifier hashes: 0 and 1 and their non-canonical
\* encodings p and p + 1
NullifierEncodings == {0, 1, FieldModulus, FieldModulus + 1}
NoteValues == {F(1), F(2)}
RootChoices == {RootBytes(Zero, 0), RootBytes(root(store.tree), 0), RootBytes(F(1), 0)}
User == F(3)

Respond(msg, m, o) ==
    /\ resp' = [msg |-> msg, err |-> o.err, nullifier_enc |-> m.nullifier_hash,
                nullifier_hash |-> FromLeBytesModOrder(m.nullifier_hash),
                attrs |-> o.attrs, inputs |-> o.inputs,
                deposits |-> resp.deposits +
                             (IF msg = "Deposit" /\ o.err = "" THEN 1 ELSE 0)]
    /\ store' = Commit(store, o)

Deposit ==
    /\ Len(store.leafs) < MaxNotes
    /\ \E nh \in NullifierEncodings, r \in RootChoices, note \in NoteValues,
          valid \in BOOLEAN,
          funds \in {<<>>, <<[denom |-> "uosmo", amount |-> 1]>>,
                     <<[denom |-> "other", amount |-> 1]>>} :
         LET m == [root |-> r, nullifier_hash |-> nh, identifier |-> Zero,
                   new_note |-> note, is_valid |-> valid, funds |-> funds]
         IN  Respond("Deposit", m, ExecuteDeposit(store, m))
    /\ UNCHANGED <<tree, phase, q, acct, run, wasm>>

Swap ==
    /\ Len(store.leafs) < MaxNotes
    /\ \E nh \in NullifierEncodings, r \in RootChoices, note \in NoteValues,
          valid \in BOOLEAN, route \in {"ok", "no_token_in", "no_routes"},
          out \in {"uusdt", "uosmo"}, timeout \in {0 - 1, 1}, now \in 1..MaxTime :
         LET m == [root |-> r, nullifier_hash |-> nh, identifier |-> Zero,
                   new_note |-> note, is_valid |-> valid, route |-> route,
                   in_denom |-> "uosmo", in_amount |-> 1, out_denom |-> out,
                   out_amount |-> 1, timeout |-> timeout]
         IN  Respond("Swap", m, ExecuteSwap(store, m, now, User, 0))
    /\ UNCHANGED <<tree, phase, q, acct, run, wasm>>

Withdraw ==
    /\ Len(store.leafs) < MaxNotes
    /\ \E nh \in NullifierEncodings, r \in RootChoices, note \in NoteValues,
          valid \in BOOLEAN,
          assets \in {[d \in {} |-> 0], [d \in {"uosmo"} |-> 1]} :
         LET m == [root |-> r, nullifier_hash |-> nh, blinding |-> OldBlinding,
                   new_note |-> note, is_valid |-> valid, assets |-> assets]
         IN  Respond("Withdraw", m, ExecuteWithdraw(store, m, User))
    /\ UNCHANGED <<tree, phase, q, acct, run, wasm>>

NextContract == Deposit \/ Swap \/ Withdraw

SpecContract == Init /\ [][NextContract]_vars

(* ------------------------------ ledger steps ---------------------------- *)
\* One transaction at a time, with what the host supplies: block time,
\* sender, attached coins, bank balances, and the messages a Swap emits.
MaxBalance == 3

\* roots as sent: zero, zero as the non-canonical p, the latest root, and
\* a value that never was a root
LedgerRoots ==
    {RootBytes(Zero, 0), RootBytes(Zero, 1), RootBytes(root(store.tree), 0),
     RootBytes(F(1), 0)}
LedgerNullifiers == {0, 1, FieldModulus}
LedgerNote == F(1)

\* info.funds: coins sorted by denom, denoms as sent
CoinLists ==
    {<<>>,
     <<[denom |-> "uosmo", amount |-> 1]>>,
     <<[denom |-> "UOSMO", amount |-> 2]>>,
     <<[denom |-> "other", amount |-> 1]>>,
     <<[denom |-> "other", amount |-> 1], [denom |-> "uosmo", amount |-> 1]>>,
     <<[denom |-> "UOSMO", amount |-> 2], [denom |-> "uosmo", amount |-> 1]>>}

\* the answer to a message and the storage the host keeps; dirty tells
\* whether the handler had written to storage when it returned
LedgerRespond(msg, m, env, o) ==
    /\ resp' = [msg |-> msg, err |-> o.err, m |-> m, env |-> env,
                attrs |-> o.attrs, inputs |-> o.inputs, dirty |-> o.st # store,
                send |-> NoSend, read |-> FALSE, saved |-> store.latest_swap,
                pre |-> store]
    /\ store' = Commit(store, o)

LedgerDeposit ==
    /\ phase = "idle"
    /\ Len(store.leafs) < MaxNotes
    /\ \E nh \in LedgerNullifiers, r \in LedgerRoots, valid \in BOOLEAN,
          funds \in CoinLists :
         LET m == [root |-> r, nullifier_hash |-> nh, identifier |-> Zero,
                   new_note |-> LedgerNote, is_valid |-> valid, funds |-> funds]
         IN  LedgerRespond("Deposit", m, [sender |-> User], ExecuteDeposit(store, m))
    /\ UNCHANGED <<tree, phase, q, acct, run, wasm>>

\* a Swap that returns Ok leaves two messages for the host to run in the
\* same transaction: the swap itself, then TransferExcess
LedgerSwap ==
    /\ phase = "idle"
    /\ Len(store.leafs) < MaxNotes
    /\ \E nh \in {0, 1}, r \in {RootBytes(Zero, 1), RootBytes(root(store.tree), 0)},
          valid \in BOOLEAN, route \in {"ok", "no_routes"}, out \in {"uusdt", "uosmo"},
          timeout \in {0 - 1, 1}, now \in 1..MaxTime, balance \in 0..1 :
         LET m == [root |-> r, nullifier_hash |-> nh, identifier |-> Zero,
                   new_note |-> LedgerNote, is_valid |-> valid, route |-> route,
                   in_denom |-> "uosmo", in_amount |-> 1, out_denom |-> out,
                   out_amount |-> 1, timeout |-> timeout]
             o == ExecuteSwap(store, m, now, User, balance)
         IN  /\ LedgerRespond("Swap", m, [sender |-> User, time |-> now,
                                          balance |-> balance], o)
             /\ phase' = IF o.err = "" THEN "swapped" ELSE "idle"
    /\ UNCHANGED <<tree, q, acct, run, wasm>>

LedgerWithdraw ==
    /\ phase = "idle"
    /\ Len(store.leafs) < MaxNotes
    /\ \E nh \in LedgerNullifiers, r \in LedgerRoots, valid \in BOOLEAN,
          assets \in {[d \in {} |-> 0], [d \in {"uosmo"} |-> 1]} :
         LET m == [root |-> r, nullifier_hash |-> nh, blinding |-> OldBlinding,
                   new_note |-> LedgerNote, is_valid |-> valid, assets |-> assets]
         IN  LedgerRespond("Withdraw", m, [sender |-> User],
                           ExecuteWithdraw(store, m, User))
    /\ UNCHANGED <<tree, phase, q, acct, run, wasm>>

\* MsgSwapExactAmountIn fails (less than token_out_min_amount came out):
\* the transaction of the Swap is undone
SwapExactAmountInFails ==
    /\ phase = "swapped"
    /\ store' = resp.pre
    /\ resp' = [resp EXCEPT !.msg = "SwapExactAmountIn", !.err = "Swap"]
    /\ phase' = "idle"
    /\ UNCHANGED <<tree, q, acct, run, wasm>>

\* TransferExcess, sent by the contract as the last message of a Swap
\* transaction or by anyone else as a transaction of its own.  A failure
\* inside the Swap transaction undoes the Swap as well.
TransferExcess ==
    /\ \E sender \in {Contract, User}, current_balance \in 0..MaxBalance :
         LET o == ExecuteTransferExcess(store, sender, current_balance)
         IN  /\ (sender = Contract) <=> (phase = "swapped")
             /\ resp' = [msg |-> "TransferExcess", err |-> o.err, m |-> [sender |-> sender],
                         env |-> [sender |-> sender, balance |-> current_balance],
                         attrs |-> NoAttrs, inputs |-> <<>>, dirty |-> o.st # store,
                         send |-> o.send, read |-> o.read, saved |-> store.latest_swap,
                         pre |-> store]
             /\ store' = IF o.err = "" THEN o.st
                         ELSE IF phase = "swapped" THEN resp.pre
                         ELSE Commit(store, o)
    /\ phase' = "idle"
    /\ UNCHANGED <<tree, q, acct, run, wasm>>

NextLedger ==
    LedgerDeposit \/ LedgerSwap \/ LedgerWithdraw \/ SwapExactAmountInFails \/ TransferExcess

SpecLedger == Init /\ [][NextLedger]_vars

(* ------------------------------- claims -------------------------------- *)
\* C1: for every tree built by insert_batch and every inserted index i,
\* Path::calculate_root(leaf_i, generate_membership_proof(i)) is Ok and
\* equals tree.root().
PathRootAgreement ==
    (q.kind = "proof" /\ q.index \in PopulatedLeaves(tree))
        => (q.native.ok /\ q.native.val = root(tree))

PathRootAgreementWitness ==
    /\ q.kind = "proof"
    /\ q.index \in PopulatedLeaves(tree)
    /\ q.index % 2 = 1
    /\ q.leaf # EmptyLeaf
    /\ Cardinality(PopulatedLeaves(tree)) >= 2
    /\ q.native.ok

\* C2: for every path produced by generate_membership_proof for an inserted
\* index, PathVar::root_hash computes exactly the value Path::calculate_root
\* computes, so PathVar::check_membership against tree.root() is true.
NativeArithmetizedAgreement ==
    (q.kind = "proof" /\ q.index \in PopulatedLeaves(tree))
        => /\ q.native.ok
           /\ q.arith = q.native.val
           /\ PathVar_check_membership(q.path, root(tree), q.leaf)

\* C3: PathVar::check_membership(root, leaf) is true only for a (leaf, path)
\* pair that the native Path::check_membership accepts with Ok(true).
ArithmetizedDeniesInvalidPaths ==
    (q.kind \in {"proof", "supplied"} /\ PathVar_check_membership(q.path, q.root, q.leaf))
        => LET n == check_membership(q.path, q.root, q.leaf)
           IN  n.ok /\ n.val

\* the field elements recorded in NULLIFIER
Spent(st) == {FromLeBytesModOrder(k) : k \in st.nullifier}

ErrorsBeforeNullifier(msg) ==
    IF msg = "Deposit" THEN {"InvalidRoot"}
    ELSE IF msg = "Swap" THEN {"AlreadyTimeout", "InvalidSwapRoute", "InvalidSwapDenom"}
    ELSE {}

HonestlyDerived(w) ==
    /\ acct.index >= 0
    /\ w.old_note_balances = acct.balances
    /\ w.old_note_identifier = HonestIdentifier
    /\ w.utxo_root = root(tree)
    /\ w.old_note_path = generate_membership_proof(tree, acct.index)
    /\ w.old_note_nullifier_hash = Pair(HonestNote(acct.balances), Nullifier)
    /\ w.diff_balance_root = calculate_balance_root(w.diff_balances)
    /\ w.new_note = NoteHash(calculate_balance_root(w.new_note_balances),
                             Pair(Address, NewBlinding), Nullifier)

NonNegative(balances) ==
    \A i \in 1..Len(balances) : IsSmallerOrEqualThanModMinusOneDivTwo(balances[i])

OffByOne(w) ==
    \E i \in 1..N_ASSETS :
        w.new_note_balances =
            [VecAdd(w.old_note_balances, w.diff_balances) EXCEPT ![i] = FAdd(@, One)]

\* C5: with every intermediate hash correctly derived, the Main circuit is
\* satisfied when new = old + diff in every slot (balances non-negative),
\* and is unsatisfied when a single new balance is changed by 1.
Conservation ==
    (run.kind = "main" /\ HonestlyDerived(run.w))
        => /\ (/\ run.w.new_note_balances = VecAdd(run.w.old_note_balances, run.w.diff_balances)
               /\ NonNegative(run.w.new_note_balances)) => run.main
           /\ OffByOne(run.w) => ~run.main

\* C6: from an all-zero old note, a diff holding the field element of a
\* negative amount gives a sum above (p-1)/2 in that slot and the Main
\* circuit is unsatisfied, whatever the other witnesses are.
NegativeBalanceRejected ==
    (run.kind = "main" /\ run.w.old_note_balances = ZeroBalances(N_ASSETS))
        => \A i \in 1..N_ASSETS :
              (run.w.diff_balances[i][2] > ModMinusOneDivTwo)
                  => /\ FAdd(run.w.old_note_balances[i], run.w.diff_balances[i])[2]
                            > ModMinusOneDivTwo
                     /\ ~run.main

NegativeBalanceRejectedWitness ==
    /\ run.kind = "main"
    /\ run.w.old_note_balances = ZeroBalances(N_ASSETS)
    /\ \E i \in 1..N_ASSETS : run.w.diff_balances[i] = F(FieldModulus - 1)
    /\ run.w.new_note_balances = run.w.diff_balances
    /\ run.w.diff_balance_root = calculate_balance_root(run.w.diff_balances)
    /\ run.w.new_note = NoteHash(calculate_balance_root(run.w.new_note_balances),
                                 Pair(Address, NewBlinding), Nullifier)
    /\ run.w.old_note_nullifier_hash = Zero
    /\ ~run.main

\* C7: the Main circuit is satisfied only if old_note_balance_root equals
\* zero_balance_root, or the nullifier hash is pair(old_note, nullifier),
\* the identifier is pair(address, blinding) and old_note is a Merkle
\* member under utxo_root.
GenesisOrValid ==
    (run.kind = "main" /\ run.main)
        => \/ calculate_balance_root(run.w.old_note_balances) = zero_balance_root
           \/ /\ run.w.old_note_nullifier_hash = Pair(MainOldNote(run.w), run.w.nullifier)
              /\ \E b \in {OldBlinding, NewBlinding} :
                    run.w.old_note_identifier = Pair(run.w.address, b)
              /\ LET n == check_membership(run.w.old_note_path, run.w.utxo_root,
                                           MainOldNote(run.w))
                 IN  n.ok /\ n.val

\* C8: with all-zero old balances and a zero old_note_nullifier_hash the
\* Main circuit is satisfied for any old_note_path and any utxo_root,
\* provided diff_balance_root, new_note and the per-slot balance
\* constraints are consistent.
GenesisBypass ==
    (/\ run.kind = "main"
     /\ run.w.old_note_balances = ZeroBalances(N_ASSETS)
     /\ run.w.old_note_nullifier_hash = Zero
     /\ run.w.diff_balance_root = calculate_balance_root(run.w.diff_balances)
     /\ run.w.new_note = NoteHash(calculate_balance_root(run.w.new_note_balances),
                                  Pair(run.w.address, run.w.new_note_blinding),
                                  run.w.nullifier)
     /\ run.w.new_note_balances = VecAdd(run.w.old_note_balances, run.w.diff_balances)
     /\ NonNegative(run.w.new_note_balances))
        => run.main

GenesisBypassWitness ==
    /\ run.kind = "main"
    /\ run.w.old_note_balances = ZeroBalances(N_ASSETS)
    /\ run.w.old_note_nullifier_hash = Zero
    /\ run.w.old_note_path = ZeroPath
    /\ run.w.utxo_root = Zero
    /\ run.w.utxo_root # root(tree)
    /\ run.w.diff_balances # ZeroBalances(N_ASSETS)
    /\ run.main

\* C9: for every witness set the Main circuit is satisfied if and only if
\* both the Spend and the Settle circuit over the shared values are.
SplitEquivalence ==
    (run.kind = "main") => (run.main <=> (run.spend /\ run.settle))

\* C10: the Migration circuit is satisfied only if the old note is valid
\* (nullifier hash, Merkle membership under utxo_root), new_note is the note
\* hash of the new balance root with the same identifier and nullifier, the
\* first N balances are copied and the remaining ones are zero.
MigrationSound ==
    (run.kind = "migration" /\ run.migration)
        => /\ run.w.old_note_nullifier_hash = Pair(MigrationOldNote(run.w), run.w.nullifier)
           /\ LET n == check_membership(run.w.old_note_path, run.w.utxo_root,
                                        MigrationOldNote(run.w))
              IN  n.ok /\ n.val
           /\ run.w.new_note = NoteHash(calculate_balance_root(run.w.new_note_balances),
                                        Pair(run.w.address, run.w.old_note_blinding),
                                        run.w.nullifier)
           /\ \A i \in 1..N_ASSETS : run.w.new_note_balances[i] = run.w.old_note_balances[i]
           /\ \A i \in (N_ASSETS + 1)..M_ASSETS : run.w.new_note_balances[i] = Zero

\* C11: generate_constraints of the Migration circuit with N_ASSETS >=
\* M_ASSETS aborts on its assertion before allocating any variable or
\* adding any constraint.
MigrationSizeAssertion ==
    (run.kind = "migration_sizes" /\ run.n >= run.m)
        => /\ run.cs.panicked
           /\ run.cs.allocated = <<>>
           /\ run.cs.enforced = 0

MigrationSizeAssertionWitness ==
    /\ run.kind = "migration_sizes"
    /\ run.n = run.m
    /\ run.cs.panicked
    /\ run.cs.allocated = <<>>

\* the running value calculate_root holds when it reaches level k
RunningValue(path, leaf, k) ==
    IF k = 1 THEN leaf ELSE Pair(path[k - 1][1], path[k - 1][2])

\* C12: for every inserted non-empty leaf at index i, Path::get_index(
\* tree.root(), leaf_i) on generate_membership_proof(i) returns i as a field
\* element.
IndexRoundTrip ==
    (q.kind = "proof" /\ q.index \in PopulatedLeaves(tree) /\ q.leaf # EmptyLeaf)
        => q.got = Ok(F(q.index))

\* C13: the Main circuit is satisfied only if new_note is the note hash of
\* the new balance root, pair(address, new_note_blinding) and the witness
\* nullifier, the one the old note and its nullifier hash are derived from.
NewNoteBinding ==
    (run.kind = "main" /\ run.main)
        => /\ run.w.new_note =
                  NoteHash(calculate_balance_root(run.w.new_note_balances),
                           Pair(run.w.address, run.w.new_note_blinding), run.w.nullifier)
           /\ (calculate_balance_root(run.w.old_note_balances) # zero_balance_root)
                  => run.w.old_note_nullifier_hash =
                         Pair(NoteHash(calculate_balance_root(run.w.old_note_balances),
                                       run.w.old_note_identifier, run.w.nullifier),
                              run.w.nullifier)

NewNoteBindingWitness ==
    /\ run.kind = "main"
    /\ run.main
    /\ acct.index >= 0
    /\ run.w.old_note_balances = acct.balances
    /\ run.w.old_note_balances # ZeroBalances(N_ASSETS)
    /\ run.w.diff_balances # ZeroBalances(N_ASSETS)
    /\ run.w.new_note # ForgedNewNote(run.w.new_note_balances)

\* C14: the Main circuit allocates its public inputs in the order [aux,
\* utxo_root, diff_balance_root, old_note_nullifier_hash,
\* old_note_identifier, new_note] and the handlers pass the verifier a
\* vector of the same length in the same order.
PublicInputOrder ==
    (resp.inputs # <<>>)
        => /\ PublicInputs(MainCircuit_allocations) =
                  <<"aux", "utxo_root", "diff_balance_root", "old_note_nullifier_hash",
                    "old_note_identifier", "new_note">>
           /\ Len(resp.inputs) = Len(PublicInputs(MainCircuit_allocations))
           /\ VerifierInputNames = PublicInputs(MainCircuit_allocations)

\* C15: SparseMerkleTree::new fails on its assertion whenever there are
\* more than 2^D initial leaves or some initial leaf index is >= 2^D.
NewRejectsOversizedLeaves ==
    (/\ q.kind = "new"
     /\ \/ Cardinality(DOMAIN q.leaves) > Pow2(TreeDepth)
        \/ \E i \in DOMAIN q.leaves : i >= Pow2(TreeDepth))
        => q.panicked

\* C16: Path::calculate_root returns Err(InvalidLeaf) exactly when the leaf
\* is in neither slot of the first pair, otherwise Err(InvalidPathNodes)
\* exactly when at a later level the running hash is in neither slot of the
\* pair, otherwise Ok of the hash of the last pair.
CalculateRootErrors ==
    (q.kind \in {"proof", "supplied"})
        => LET bad_leaf == q.leaf # q.path[1][1] /\ q.leaf # q.path[1][2]
               bad_node == \E k \in 2..TreeDepth :
                              /\ RunningValue(q.path, q.leaf, k) # q.path[k][1]
                              /\ RunningValue(q.path, q.leaf, k) # q.path[k][2]
           IN  q.native = IF bad_leaf THEN Err("InvalidLeaf")
                          ELSE IF bad_node THEN Err("InvalidPathNodes")
                          ELSE Ok(Pair(q.path[TreeDepth][1], q.path[TreeDepth][2]))

CalculateRootErrorsWitness ==
    /\ q.kind = "supplied"
    /\ (q.leaf = q.path[1][1] \/ q.leaf = q.path[1][2])
    /\ q.leaf # EmptyLeaf
    /\ q.native = Err("InvalidPathNodes")

\* C17: every insert_batch leaves the set of populated tree indices (leaves
\* and internal nodes) a superset of what it was.
TreeNeverShrinks ==
    [][DOMAIN tree \subseteq DOMAIN tree']_vars

TreeNeverShrinksWitness ==
    /\ Cardinality(PopulatedLeaves(tree)) = MaxLeaves
    /\ 0 \in DOMAIN tree

ChildLevel(i) == TreeDepth - BitLength(i + 1)

\* C19: every ancestor of a populated leaf is stored, and every stored
\* internal node equals pair(left child or empty_hashes[l], right child or
\* empty_hashes[l]), l being the level of its children.
MerkleConsistency ==
    /\ \A i \in DOMAIN tree : (i > 0) => ((i - 1) \div 2) \in DOMAIN tree
    /\ \A i \in DOMAIN tree :
          (i < last_level_index)
              => tree[i] =
                     Pair(IF (2 * i + 1) \in DOMAIN tree THEN tree[2 * i + 1]
                          ELSE empty_hashes(ChildLevel(i)),
                          IF (2 * i + 2) \in DOMAIN tree THEN tree[2 * i + 2]
                          ELSE empty_hashes(ChildLevel(i)))

MerkleConsistencyWitness ==
    /\ PopulatedLeaves(tree) = {0}
    /\ tree[last_level_index] # EmptyLeaf
    /\ tree[0] = Pair(tree[1], empty_hashes(TreeDepth - 1))

\* C20: Path::get_index returns an index only when the path replays from
\* the leaf to root_hash; it returns Err(InvalidLeaf) when check_membership
\* is Ok(false) and passes on the error of calculate_root unchanged.
GetIndexErrors ==
    (q.kind \in {"proof", "supplied"})
        => /\ (~q.native.ok) => q.got = Err(q.native.err)
           /\ (q.native.ok /\ q.native.val # q.root) => q.got = Err("InvalidLeaf")
           /\ q.got.ok => (q.native.ok /\ q.native.val = q.root)

GetIndexErrorsWitness ==
    /\ q.kind = "supplied"
    /\ q.native.ok
    /\ q.native.val # q.root
    /\ q.got = Err("InvalidLeaf")

\* the leaf map a tree holds: populated leaf index -> stored leaf
FinalLeafMap(t) == [i \in PopulatedLeaves(t) |-> LeafAt(t, i)]

RECURSIVE OneLeafPerBatch(_, _, _)
\* the leaves of a map inserted one per batch, in descending index order
OneLeafPerBatch(t, leaves, todo) ==
    IF todo = {} THEN t
    ELSE LET i == CHOOSE m \in todo : \A o \in todo : m >= o
         IN  OneLeafPerBatch(insert_batch(t, [j \in {i} |-> leaves[i]]), leaves, todo \ {i})

\* C23: the tree after any sequence of insert_batch calls with indices
\* below 2^D (root and every stored node) is the tree one batch holding the
\* final leaf map builds, and the tree built one leaf per batch.
BatchIndependence ==
    /\ tree = insert_batch(SMT_new(EmptyMap), FinalLeafMap(tree))
    /\ tree = OneLeafPerBatch(SMT_new(EmptyMap), FinalLeafMap(tree),
                              PopulatedLeaves(tree))

BatchIndependenceWitness ==
    /\ Cardinality(PopulatedLeaves(tree)) = MaxLeaves
    /\ \E i \in PopulatedLeaves(tree) : LeafAt(tree, i) # EmptyLeaf
    /\ \E i \in PopulatedLeaves(tree) : LeafAt(tree, i) = EmptyLeaf

\* C24: for every tree reachable from new() by insert_batch calls, the
\* empty tree included, and every index i < 2^D, populated or not,
\* calculate_root over generate_membership_proof(i) and the leaf stored at
\* i (the empty leaf when none is stored) is Ok and equals root().
PathRootAgreementEverywhere ==
    (q.kind = "proof") => (q.native.ok /\ q.native.val = root(tree))

\* the signed integer a field element stands for under the half-range
\* convention: x for x <= (p - 1) / 2, x - p above
Signed(x) == IF x[2] <= ModMinusOneDivTwo THEN x[2] ELSE x[2] - FieldModulus

\* C25: in every satisfying assignment of the Main or Settle circuit, every
\* old and new balance lies in [0, (p - 1) / 2] and old + d = new holds over
\* the integers, d being the signed integer diff_balances[i] stands for.
NoWrapAround ==
    (run.kind = "main" /\ (run.main \/ run.settle))
        => \A i \in 1..N_ASSETS :
              /\ run.w.old_note_balances[i][2] \in 0..ModMinusOneDivTwo
              /\ run.w.new_note_balances[i][2] \in 0..ModMinusOneDivTwo
              /\ run.w.old_note_balances[i][2] + Signed(run.w.diff_balances[i])
                     = run.w.new_note_balances[i][2]

NoWrapAroundWitness ==
    /\ run.kind = "main"
    /\ run.main
    /\ run.settle
    /\ \E i \in 1..N_ASSETS :
          /\ run.w.old_note_balances[i][2] + run.w.diff_balances[i][2] >= FieldModulus
          /\ Signed(run.w.diff_balances[i]) < 0

\* C29: after any sequence of insert_batch calls on the wasm tree,
\* latest_index is the number of leaves passed so far and the k-th leaf
\* ever passed (k from 0) is stored at leaf index k, so no leaf inserted
\* earlier has been overwritten.
MirrorInvariant ==
    /\ wasm.latest_index = Len(wasm.passed)
    /\ \A k \in 0..(Len(wasm.passed) - 1) :
          /\ (last_level_index + k) \in DOMAIN wasm.tree
          /\ wasm.tree[last_level_index + k] = F(FromLeBytesModOrder(wasm.passed[k + 1]))

\* C21: a Swap with timeout Some(t) is rejected with AlreadyTimeout exactly
\* when the block time in seconds is greater than t, a Swap with timeout
\* None is never rejected for time, and the aux public input the proof is
\* verified against is hashed over that same timeout value.
SwapTimeout ==
    (resp.msg = "Swap")
        => /\ (resp.err = "AlreadyTimeout")
                  <=> (resp.m.timeout >= 0 /\ resp.env.time > resp.m.timeout)
           /\ (resp.inputs # <<>>)
                  => /\ resp.inputs[1] = SwapAux(resp.m)
                     /\ \A t \in {0 - 1} \cup (0..MaxTime) :
                           (t # resp.m.timeout)
                               => resp.inputs[1] # SwapAux([resp.m EXCEPT !.timeout = t])

SwapTimeoutWitness ==
    /\ resp.msg = "Swap"
    /\ resp.err = ""
    /\ resp.m.timeout >= 0
    /\ resp.env.time = resp.m.timeout
    /\ resp.inputs[1] = SwapAux(resp.m)

SentinelBypass ==
    [][LET nh == FromLeBytesModOrder(resp'.m.nullifier_hash)
           tree_root == RootFromLeBytesModOrder(resp'.m.root)
       IN  /\ (resp'.msg = "Deposit")
                  => /\ (resp'.err = "InvalidRoot")
                            <=> (tree_root # Zero /\ ~is_valid_root(store, tree_root))
                     /\ (resp'.err = "UsedNullifier")
                            <=> /\ nh # 0
                                /\ nh \in Spent(store)
                                /\ resp'.err # "InvalidRoot"
                     /\ (resp'.err = "")
                            => Spent(store') = Spent(store) \cup (IF nh # 0 THEN {nh} ELSE {})
           /\ (resp'.msg \in {"Swap", "Withdraw"})
                  => /\ (resp'.err = "")
                            => /\ is_valid_root(store, tree_root)
                               /\ nh \notin Spent(store)
                               /\ nh \in Spent(store')
                     /\ (nh \in Spent(store)) => resp'.err # ""
                     /\ (resp'.err = "InvalidRoot") => ~is_valid_root(store, tree_root)
                     /\ (resp'.msg = "Withdraw")
                            => /\ (resp'.err = "UsedNullifier") <=> (nh \in Spent(store))
                               /\ (resp'.err = "InvalidRoot")
                                      <=> (nh \notin Spent(store)
                                           /\ ~is_valid_root(store, tree_root))
      ]_vars

SentinelBypassWitness ==
    /\ resp.msg = "Deposit"
    /\ resp.err = ""
    /\ resp.m.root = RootBytes(Zero, 1)
    /\ resp.m.nullifier_hash = FieldModulus
    /\ 0 \in Spent(store)
    /\ resp.pre.root_history # {}

\* C27: with b the saved out-denom balance and m the minimum out amount,
\* TransferExcess sends the swap sender exactly current_balance - (b + m)
\* and clears LATEST_SWAP when current_balance > b + m, so that b + m stay
\* with the contract; when current_balance <= b + m it fails with
\* MinimumSwapBalanceNotMet.
TransferExcessSettlement ==
    [][(resp'.msg = "TransferExcess" /\ resp'.env.sender = Contract /\ store.latest_swap.set)
          => LET b == store.latest_swap.balance
                 m == store.latest_swap.amount
                 current_balance == resp'.env.balance
             IN  IF current_balance > b + m
                 THEN /\ resp'.err = ""
                      /\ resp'.send = [to |-> store.latest_swap.sender,
                                       amount |-> current_balance - (b + m),
                                       denom |-> store.latest_swap.denom]
                      /\ current_balance - resp'.send.amount = b + m
                      /\ ~store'.latest_swap.set
                 ELSE /\ resp'.err = "MinimumSwapBalanceNotMet"
                      /\ resp'.send = NoSend ]_vars

TransferExcessSettlementWitness ==
    /\ resp.msg = "TransferExcess"
    /\ resp.err = ""
    /\ resp.saved.set
    /\ resp.saved.balance = 1
    /\ resp.env.balance = MaxBalance
    /\ resp.send.amount = MaxBalance - 2
    /\ resp.send.to = User
    /\ ~store.latest_swap.set

\* C28: TransferExcess sent by any address other than the contract's own
\* fails with NotContract before LATEST_SWAP is read or removed, and no
\* funds are sent.
OnlyContractTransfersExcess ==
    [][(resp'.msg = "TransferExcess" /\ resp'.env.sender # Contract)
          => /\ resp'.err = "NotContract"
             /\ ~resp'.read
             /\ ~resp'.dirty
             /\ resp'.send = NoSend
             /\ store' = store ]_vars

OnlyContractTransfersExcessWitness ==
    /\ resp.msg = "TransferExcess"
    /\ resp.env.sender = User
    /\ resp.err = "NotContract"
    /\ ~resp.read
    /\ Len(store.leafs) > 0

\* the attached coins whose lower-cased denom is the asset
CoinsOf(funds, asset) == {k \in 1..Len(funds) : ToLower(funds[k].denom) = asset}

\* C30: the diff vector a Deposit is verified against holds, for each entry
\* of ASSETS, the amount of the attached coin with that lower-cased denom,
\* or zero when there is none; coins in a denom that is not in ASSETS add
\* nothing and do not make the Deposit fail, and UnknownAsset is never
\* returned.
DepositCreditsListedAssets ==
    /\ resp.err # "UnknownAsset"
    /\ (resp.msg = "Deposit")
          => LET funds == resp.m.funds
                 listed == SelectSeq(funds, LAMBDA c :
                               \E i \in 1..N_ASSETS : ToLower(c.denom) = ASSETS[i])
                 without == [resp.m EXCEPT !.funds = listed]
             IN  /\ resp.err = ExecuteDeposit(resp.pre, without).err
                 /\ (resp.inputs # <<>>)
                        => \E diff \in [1..N_ASSETS -> {F(n) : n \in 0..2}] :
                              /\ resp.inputs[3] = CRH(diff)
                              /\ \A i \in 1..N_ASSETS :
                                    /\ (CoinsOf(funds, ASSETS[i]) = {}) => diff[i] = Zero
                                    /\ \A k \in 1..Len(funds) :
                                          (CoinsOf(funds, ASSETS[i]) = {k})
                                              => diff[i] = F(funds[k].amount)

DepositCreditsListedAssetsWitness ==
    /\ resp.msg = "Deposit"
    /\ resp.err = ""
    /\ Len(resp.m.funds) = 2
    /\ resp.m.funds[1].denom = "other"
    /\ resp.inputs[3] = CRH([i \in 1..N_ASSETS |-> IF i = 1 THEN One ELSE Zero])

====
